---- MODULE Spec2Model ----
(***************************************************************************)
(* Model of the process-orchestration and repository-status code of        *)
(* illogical-updots: utils/process.py (build_color_env,                    *)
(* spawn_setup_install and its auto-input feeder, PTYStdout,               *)
(* stream_process_lines, launch_install_external), core/git_utils.py       *)
(* (RepoStatus, check_repo_status), ui/console_panel.py (set_process,      *)
(* send_to_process, append) and core/app_meta.py (save_settings).          *)
(*                                                                         *)
(* Strings that the code only passes around are TLA+ strings; strings the  *)
(* code splits, strips or parses are sequences of one-character strings.   *)
(* Python's None is the value 0 for a descriptor and the empty sequence    *)
(* for a character string where the code tests truthiness.                 *)
(***************************************************************************)
EXTENDS Integers, Sequences, FiniteSets, TLC

VARIABLES
    \* ---- spawn_setup_install (utils/process.py) ----
    spPc,        \* "idle" | "loop" | "done": position of the call
    spArgs,      \* the arguments of the call
    cmdIdx,      \* index into base_cmds of the next attempt
    attempts,    \* history: one record per Popen attempt
    log,         \* the lines given to logger, in order
    proc,        \* the Popen object returned (NoProc when none)
    ret,         \* "pending" | "proc" | "none"
    fds,         \* pseudo-terminal descriptors open in this process
    feeders,     \* number of feeder threads started
    \* ---- the feeder thread (_feed / _feed_yesforall) ----
    fdKind,      \* "none" | "_feed" | "_feed_yesforall"
    fdPc,        \* "none" | "start" | "items" | "sentinel" | "done"
    fdIdx,       \* index of the next item of auto_input_seq
    fdWrites,    \* history: the write attempts made by the feeder
    stdinClosed, \* p.stdin.closed of the returned process
    \* ---- stream_process_lines (utils/process.py) ----
    stPc,        \* "idle" | "reading" | "done"
    stSpawned,   \* whether subprocess.Popen returned
    stText,      \* the text argument
    stContent,   \* history: what p.stdout yields in all (characters)
    stStream,    \* the part of p.stdout not yet read
    stFailed,    \* history: p.stdout.readline raised
    stExit,      \* the exit code the process ends with
    stDelivered, \* the lines given to on_line, in order
    stRet,       \* the value returned, once stPc is "done"
    \* ---- PTYStdout (utils/process.py) ----
    ptyReceived, \* history: every character the child wrote to the terminal
    ptyPending,  \* characters written and not yet read by read(1)
    ptyEof,      \* the stream has ended: read(1) returns '' once drained
    ptyBuffer,   \* self._buffer
    ptyReturned, \* history: the values readline returned, in order
    \* ---- RepoStatus / check_repo_status (core/git_utils.py) ----
    gitHow,      \* "none" | "check" | "ctor": how status was made
    gitEnv,      \* what the file system and the git commands answered
    gitCalls,    \* the git commands run by the last check, in order
    status,      \* the last RepoStatus made
    hasUpd,      \* status.has_updates
    \* ---- launch_install_external (utils/process.py) ----
    lnPc,        \* "idle" | "loop" | "direct" | "done"
    lnIdx,       \* index into terminals of the next one probed
    lnTried,     \* history: one record per terminal probed
    lnChildren,  \* the children launched, in order
    lnRaised,    \* an exception left launch_install_external
    \* ---- build_color_env (utils/process.py) ----
    envPc,       \* "idle" | "built" | "rebuilt"
    envArgs,     \* the arguments of the call: base and force_color
    envOs,       \* os.environ at the time of the call
    envOut,      \* the dictionary the call returned
    envAgain,    \* build_color_env applied to envOut
    \* ---- ConsolePanel.send_to_process (ui/console_panel.py) ----
    conProc,     \* self._current_proc (NoProc when None)
    conLog,      \* the texts given to self.append by send_to_process
    conSends,    \* history: one record per call of send_to_process
    wire,        \* what was written to the returned process's transport
    \* ---- ConsolePanel.append (ui/console_panel.py) ----
    cpPc,        \* "none" | "live": the panel has been constructed
    logLimit,    \* int(self.settings.get("log_max_lines", 0))
    realized,    \* view.get_realized()
    cpBuffer,    \* the characters of the text buffer (self.buffer)
    idle,        \* do_append callbacks queued with GLib.idle_add
    inserted,    \* history: every text inserted, in order
    \* ---- save_settings (core/app_meta.py) ----
    svPc,        \* "idle" | "open" | "write" | "replace" | "done" | "killed"
    svFs,        \* content of SETTINGS_FILE (file) and of the temp file (tmp)
    svPrev,      \* history: content of SETTINGS_FILE when the save began
    svNew,       \* what json.dump writes in all, in chunks
    svIdx,       \* index of the next chunk json.dump writes
    svOutcome    \* "none" | "returned" | "raised": how the last save ended

spawnVars == <<spPc, spArgs, cmdIdx, attempts, log, proc, ret, fds, feeders>>
feedVars == <<fdKind, fdPc, fdIdx, fdWrites, stdinClosed>>
streamVars == <<stPc, stSpawned, stText, stContent, stStream, stFailed, stExit,
                stDelivered, stRet>>
ptyVars == <<ptyReceived, ptyPending, ptyEof, ptyBuffer, ptyReturned>>
gitVars == <<gitHow, gitEnv, gitCalls, status, hasUpd>>
launchVars == <<lnPc, lnIdx, lnTried, lnChildren, lnRaised>>
envVars == <<envPc, envArgs, envOs, envOut, envAgain>>
conVars == <<conProc, conLog, conSends, wire>>
bufVars == <<cpPc, logLimit, realized, cpBuffer, idle, inserted>>
saveVars == <<svPc, svFs, svPrev, svNew, svIdx, svOutcome>>
vars == <<spawnVars, feedVars, streamVars, ptyVars, gitVars, launchVars,
          envVars, conVars, bufVars, saveVars>>

----------------------------------------------------------------------------
(* Bounds *)

\* longest auto_input_seq enumerated
MaxSeq == 2
\* most characters a streamed process writes
MaxOut == 3
\* most characters the child writes to the pseudo-terminal
MaxBytes == 4
\* most characters that arrive in one write to the pseudo-terminal
MaxChunk == 2
\* reads made after the stream is exhausted
MaxEofReads == 2
\* most calls of send_to_process
MaxSends == 2
\* most characters appended to the console buffer in all
MaxBuf == 5
\* most do_append callbacks waiting in the main loop
MaxIdle == 2

----------------------------------------------------------------------------
(* Generic helpers *)

RECURSIVE SeqsUpTo(_, _)
SeqsUpTo(S, n) ==
    IF n = 0 THEN {<<>>}
    ELSE LET shorter == SeqsUpTo(S, n - 1)
         IN  shorter \cup {Append(s, x) : s \in {t \in shorter : Len(t) = n - 1}, x \in S}

Last(s) == s[Len(s)]

RECURSIVE Flatten(_)
\* the concatenation of a sequence of sequences
Flatten(ss) == IF ss = <<>> THEN <<>> ELSE Head(ss) \o Flatten(Tail(ss))

\* index of the first element of s equal to c, 0 when there is none
RECURSIVE IndexOf(_, _, _)
IndexOf(s, c, from) ==
    IF from > Len(s) THEN 0
    ELSE IF s[from] = c THEN from ELSE IndexOf(s, c, from + 1)

NL == "\n"

----------------------------------------------------------------------------
(* spawn_setup_install *)

\* the sentinel line both feeders write last
Yesforall == "yesforall\n"

\* items an auto-input sequence is drawn from (the sentinel text included:
\* nothing stops a caller from passing it as an item)
Items == {"yes", Yesforall}

\* base_cmds, joined with ' ' as the log lines print them
BaseCmds == <<"./setup", "fish ./setup", "sh ./setup">>

\* what subprocess.Popen can do: spawn, or raise OSError with an errno,
\* or raise another Exception (ValueError, SubprocessError)
PopenOutcomes == {"ok", "ENOEXEC", "ENOENT", "EACCES", "other"}

OnSpawnErrorAlwaysContinue(out) == "continue"
\* the two except clauses: only OSError(ENOEXEC) continues the loop
OnSpawnError(out) == IF out = "ENOEXEC" THEN "continue" ELSE "return"

\* descriptors pty.openpty() returns for the i-th attempt
MasterFd(i) == 2 * i + 1
SlaveFd(i) == 2 * i + 2

NoProc == [cmd |-> "", master |-> 0, stdin |-> FALSE, stdout |-> "none"]

LogLine(tag, arg) == [tag |-> tag, arg |-> arg]

TriesPtyUntilItFails(use_pty, earlier) ==
    use_pty /\ \A i \in 1..Len(earlier) : ~(earlier[i].asked_pty /\ ~earlier[i].pty)
\* `_use_pty = use_pty` at the top of every iteration: whether this attempt
\* calls pty.openpty(), given the attempts made before it
TriesPty(use_pty, earlier) == use_pty

MakeProcBothTransports(cmd, usePty, i, capture) ==
    [cmd |-> cmd, master |-> IF usePty THEN MasterFd(i) ELSE 0, stdin |-> TRUE,
     stdout |-> IF usePty THEN "pty" ELSE IF capture THEN "pipe" ELSE "none"]
\* the Popen object of the i-th attempt as the function returns it: with
\* stdin=slave_fd p.stdin is None and _pty_master_fd is set; with
\* stdin=PIPE p.stdin is the pipe and there is no _pty_master_fd
MakeProc(cmd, usePty, i, capture) ==
    IF usePty
    THEN [cmd |-> cmd, master |-> MasterFd(i), stdin |-> FALSE, stdout |-> "pty"]
    ELSE [cmd |-> cmd, master |-> 0, stdin |-> TRUE,
          stdout |-> IF capture THEN "pipe" ELSE "none"]

StartsFeederAlways(out) == TRUE
\* threading.Thread(...).start() follows the Popen call inside the try
\* block: it runs only when Popen returned
StartsFeeder(out) == out = "ok"

\* `if auto_input_seq:` -- None and [] both take the else branch
FeederFor(seq) == IF seq # <<>> THEN "_feed" ELSE "_feed_yesforall"

\* the call: arguments are bound, the loop over base_cmds begins
SpawnCall ==
    /\ spPc = "idle"
    /\ \E usePty \in BOOLEAN, capture \in BOOLEAN, given \in BOOLEAN,
          seq \in SeqsUpTo(Items, MaxSeq) :
          /\ (~given => seq = <<>>)
          /\ spArgs' = [use_pty |-> usePty, capture_stdout |-> capture,
                        given |-> given, auto_input_seq |-> seq]
    /\ spPc' = "loop"
    /\ cmdIdx' = 1
    /\ UNCHANGED <<attempts, log, proc, ret, fds, feeders, feedVars>>
    /\ UNCHANGED <<streamVars, ptyVars, gitVars, launchVars, envVars, conVars>>
    /\ UNCHANGED <<bufVars, saveVars>>

\* one iteration of `for cmd in base_cmds`, including the return or the
\* except clause it ends in
SpawnAttempt ==
    /\ spPc = "loop"
    /\ cmdIdx <= Len(BaseCmds)
    /\ \E ptyOk \in (IF TriesPty(spArgs.use_pty, attempts) THEN BOOLEAN ELSE {FALSE}),
          out \in PopenOutcomes :
        LET cmd == BaseCmds[cmdIdx]
            tries == TriesPty(spArgs.use_pty, attempts)
            \* _use_pty after the openpty try block
            usePty == tries /\ ptyOk
            warn == IF tries /\ ~ptyOk
                    THEN <<LogLine("pty-warn", cmd)>> ELSE <<>>
            opened == IF usePty THEN {MasterFd(cmdIdx), SlaveFd(cmdIdx)} ELSE {}
            att == [cmd |-> cmd, out |-> out, pty |-> usePty, asked_pty |-> tries]
            started == IF StartsFeeder(out) THEN 1 ELSE 0
        IN
        /\ attempts' = Append(attempts, att)
        /\ IF out = "ok"
           THEN \* Popen returned: wrap the transport, start the feeder, return p
                /\ proc' = MakeProc(cmd, usePty, cmdIdx, spArgs.capture_stdout)
                \* os.close(slave_fd) in the parent
                /\ fds' = (fds \cup opened) \ {SlaveFd(cmdIdx)}
                /\ log' = log \o warn \o
                          <<LogLine(IF usePty THEN "spawn/pty" ELSE "spawn", cmd)>>
                /\ fdKind' = FeederFor(spArgs.auto_input_seq)
                /\ fdPc' = "start"
                /\ feeders' = feeders + started
                /\ ret' = "proc"
                /\ spPc' = "done"
                /\ UNCHANGED <<cmdIdx, fdIdx, fdWrites, stdinClosed>>
           ELSE \* Popen raised: nothing is closed before the except clause
                /\ fds' = fds \cup opened
                /\ IF OnSpawnError(out) = "continue"
                   THEN /\ cmdIdx' = cmdIdx + 1
                        /\ IF cmdIdx = Len(BaseCmds)
                           THEN \* the loop is over: the line after it
                                /\ log' = log \o warn \o
                                          <<LogLine("warn-exec-format", cmd),
                                            LogLine("error", "all-fallbacks-failed")>>
                                /\ ret' = "none"
                                /\ spPc' = "done"
                           ELSE /\ log' = log \o warn \o
                                          <<LogLine("warn-exec-format", cmd)>>
                                /\ UNCHANGED <<ret, spPc>>
                   ELSE /\ log' = log \o warn \o <<LogLine("error", out)>>
                        /\ ret' = "none"
                        /\ spPc' = "done"
                        /\ UNCHANGED cmdIdx
                /\ feeders' = feeders + started
                /\ UNCHANGED <<proc, feedVars>>
    /\ UNCHANGED <<spArgs, streamVars, ptyVars, gitVars, launchVars, envVars, conVars>>
    /\ UNCHANGED <<bufVars, saveVars>>

----------------------------------------------------------------------------
(* The feeder thread *)

WriteAttempt(kind, text, res) == [kind |-> kind, text |-> text, res |-> res]

OsWriteInFront(w, by, text, res) ==
    IF res = "ok" THEN <<[by |-> by, text |-> text]>> \o w ELSE w
\* os.write(fd, text.encode(...)) on the transport of the returned process:
\* one call hands over the whole text; a call that raises hands over nothing
OsWrite(w, by, text, res) ==
    IF res = "ok" THEN Append(w, [by |-> by, text |-> text]) ELSE w

\* outcomes of os.write on the transport: written, or OSError
WriteOutcomes == {"ok", "oserr"}

AfterItemsSkipSentinel == "done"
\* after the for loop, whether it ended or was left by `break`, control
\* reaches the try block that writes the sentinel
AfterItems == "sentinel"

\* thread start up to the end of the first sleep
FeedStart ==
    /\ fdPc = "start"
    /\ IF fdKind = "_feed"
       THEN IF proc.master = 0 /\ ~proc.stdin
            THEN /\ log' = Append(log, LogLine("auto-input-unavailable", ""))
                 /\ fdPc' = "done"
                 /\ UNCHANGED fdIdx
            ELSE /\ fdPc' = "items"
                 /\ fdIdx' = 1
                 /\ UNCHANGED log
       ELSE /\ fdPc' = "sentinel"
            /\ UNCHANGED <<log, fdIdx>>
    /\ UNCHANGED <<spPc, spArgs, cmdIdx, attempts, proc, ret, fds, feeders>>
    /\ UNCHANGED <<fdKind, fdWrites, stdinClosed, streamVars, ptyVars, gitVars, launchVars, envVars, conVars>>
    /\ UNCHANGED <<bufVars, saveVars>>

\* one iteration of `for item in auto_input_seq`, with the sleep after it
FeedItem ==
    /\ fdPc = "items"
    /\ fdIdx <= Len(spArgs.auto_input_seq)
    /\ LET item == spArgs.auto_input_seq[fdIdx]
           isLast == fdIdx = Len(spArgs.auto_input_seq)
           \* the pipe branch tests pipe.closed before it writes
           sawClosed == proc.master = 0 /\ stdinClosed
       IN \E res \in (IF sawClosed THEN {"none"} ELSE WriteOutcomes) :
            IF sawClosed
            THEN \* "[auto-input] stdin closed; stopping" and break
                 /\ log' = Append(log, LogLine("auto-input-closed", ""))
                 /\ fdPc' = AfterItems
                 /\ UNCHANGED <<fdIdx, fdWrites, wire>>
            ELSE /\ fdWrites' = Append(fdWrites, WriteAttempt("item", item, res))
                 /\ wire' = OsWrite(wire, "feeder", item, res)
                 /\ IF res = "ok"
                    THEN /\ log' = Append(log, LogLine("auto-input", item))
                         /\ fdIdx' = fdIdx + 1
                         /\ fdPc' = IF isLast THEN AfterItems ELSE "items"
                    ELSE \* except: "[auto-input-error]" and break
                         /\ log' = Append(log, LogLine("auto-input-error", item))
                         /\ fdPc' = AfterItems
                         /\ UNCHANGED fdIdx
    /\ UNCHANGED <<spPc, spArgs, cmdIdx, attempts, proc, ret, fds, feeders>>
    /\ UNCHANGED <<fdKind, stdinClosed, streamVars, ptyVars, gitVars, launchVars, envVars>>
    /\ UNCHANGED <<conProc, conLog, conSends>>
    /\ UNCHANGED <<bufVars, saveVars>>

\* the try block that writes 'yesforall\n' (the tail of _feed, and the
\* body of _feed_yesforall)
FeedSentinel ==
    /\ fdPc = "sentinel"
    /\ LET \* pipe.fileno() raises ValueError on a closed file, before os.write
           badFile == proc.master = 0 /\ proc.stdin /\ stdinClosed
           noTransport == proc.master = 0 /\ ~proc.stdin
       IN \E res \in (IF badFile THEN {"badfile"}
                      ELSE IF noTransport THEN {"none"} ELSE WriteOutcomes) :
            /\ fdWrites' = IF noTransport THEN fdWrites
                           ELSE Append(fdWrites, WriteAttempt("sentinel", Yesforall, res))
            /\ wire' = OsWrite(wire, "feeder", Yesforall, res)
            /\ log' = IF res \in {"ok", "none"}
                      THEN Append(log, LogLine("auto-input", Yesforall))
                      ELSE Append(log, LogLine("auto-input-error", Yesforall))
    /\ fdPc' = "done"
    /\ UNCHANGED <<spPc, spArgs, cmdIdx, attempts, proc, ret, fds, feeders>>
    /\ UNCHANGED <<fdKind, fdIdx, stdinClosed, streamVars, ptyVars, gitVars, launchVars, envVars>>
    /\ UNCHANGED <<conProc, conLog, conSends>>
    /\ UNCHANGED <<bufVars, saveVars>>

\* the owner of the returned process closes its standard-input pipe
CloseStdin ==
    /\ ret = "proc"
    /\ proc.stdin
    /\ ~stdinClosed
    /\ stdinClosed' = TRUE
    /\ UNCHANGED <<spawnVars, fdKind, fdPc, fdIdx, fdWrites, streamVars, ptyVars, gitVars, launchVars, envVars, conVars>>
    /\ UNCHANGED <<bufVars, saveVars>>

----------------------------------------------------------------------------
(* stream_process_lines *)

\* characters a streamed process writes
OutChars == {"a", "\n", "\r"}

\* exit codes Popen.wait() reports (negative: killed by that signal)
ExitCodes == {0, 1, -9}

CodeStr(rc) == IF rc = 0 THEN "0" ELSE IF rc = 1 THEN "1" ELSE "-9"

\* f"[exit {rc}]\n"
ExitLine(rc) == <<"[exit ", CodeStr(rc), "]", NL>>
\* f"[error] failed to spawn: {ex}\n"
SpawnErrorLine == <<"[error] failed to spawn: ", "ex", NL>>
\* f"[stream error] {ex}\n"
StreamErrorLine == <<"[stream error] ", "ex", NL>>

RECURSIVE UniversalNewlines(_)
\* text mode (newline=None): '\r\n' and '\r' are read as '\n'
UniversalNewlines(s) ==
    IF s = <<>> THEN <<>>
    ELSE IF Head(s) = "\r"
         THEN IF Len(s) > 1 /\ s[2] = NL
              THEN <<NL>> \o UniversalNewlines(Tail(Tail(s)))
              ELSE <<NL>> \o UniversalNewlines(Tail(s))
         ELSE <<Head(s)>> \o UniversalNewlines(Tail(s))

\* p.stdout.readline(): up to and including the first '\n', or what is
\* left; the empty sequence at end of file
FileReadline(s) ==
    LET k == IndexOf(s, NL, 1)
    IN  IF k = 0 THEN [line |-> s, rest |-> <<>>]
        ELSE [line |-> SubSeq(s, 1, k), rest |-> SubSeq(s, k + 1, Len(s))]

SpawnFailLinesWithExit == <<SpawnErrorLine, ExitLine(1)>>
\* the except clause of the Popen call: one line, then `return 1`
SpawnFailLines == <<SpawnErrorLine>>

StreamTailNoExitAfterError(failed, rc) ==
    IF failed THEN <<StreamErrorLine>> ELSE <<ExitLine(rc)>>
\* what on_line receives once the read loop is over: the except clause's
\* line if readline raised, then the line after p.wait()
StreamTail(failed, rc) ==
    (IF failed THEN <<StreamErrorLine>> ELSE <<>>) \o <<ExitLine(rc)>>

\* the call up to the first readline
StreamCall ==
    /\ stPc = "idle"
    /\ \E ok \in BOOLEAN, text \in BOOLEAN, out \in SeqsUpTo(OutChars, MaxOut),
          rc \in ExitCodes :
        /\ stText' = text
        /\ stSpawned' = ok
        /\ IF ok
           THEN LET content == IF text THEN UniversalNewlines(out) ELSE out
                IN  /\ stContent' = content
                    /\ stStream' = content
                    /\ stExit' = rc
                    /\ stPc' = "reading"
                    /\ UNCHANGED <<stDelivered, stRet>>
           ELSE /\ out = <<>> /\ rc = 0
                /\ stDelivered' = SpawnFailLines
                /\ stRet' = 1
                /\ stPc' = "done"
                /\ UNCHANGED <<stContent, stStream, stExit>>
    /\ UNCHANGED <<stFailed, spawnVars, feedVars, ptyVars, gitVars, launchVars, envVars, conVars>>
    /\ UNCHANGED <<bufVars, saveVars>>

\* one readline of the loop; when the loop ends (end of file, or an
\* exception) the rest of the function runs: close, wait, the exit line
StreamRead ==
    /\ stPc = "reading"
    /\ \E raised \in BOOLEAN :
        LET r == FileReadline(stStream)
        IN  IF ~raised /\ r.line # <<>>
            THEN /\ stDelivered' = Append(stDelivered, r.line)
                 /\ stStream' = r.rest
                 /\ UNCHANGED <<stPc, stRet, stFailed>>
            ELSE /\ stDelivered' = stDelivered \o StreamTail(raised, stExit)
                 /\ stFailed' = raised
                 /\ stRet' = stExit
                 /\ stPc' = "done"
                 /\ UNCHANGED stStream
    /\ UNCHANGED <<stSpawned, stText, stContent, stExit>>
    /\ UNCHANGED <<spawnVars, feedVars, ptyVars, gitVars, launchVars, envVars, conVars>>
    /\ UNCHANGED <<bufVars, saveVars>>

----------------------------------------------------------------------------
(* PTYStdout *)

\* characters the child writes to the pseudo-terminal
PtyChars == {"a", "b", "\n"}

PtyOnEofDropsRemainder(buffer) == [out |-> <<>>, buf |-> buffer]
\* `if not chunk:` -- the remainder once, then ''
PtyOnEof(buffer) ==
    IF buffer # <<>> THEN [out |-> buffer, buf |-> <<>>]
    ELSE [out |-> <<>>, buf |-> <<>>]

\* `self._buffer += chunk`, then the split at the first newline
PtyOnChunk(buffer, chunk) ==
    LET b == buffer \o chunk
        k == IndexOf(b, NL, 1)
    IN  IF k # 0
        THEN [done |-> TRUE, out |-> SubSeq(b, 1, k - 1) \o <<NL>>,
              buf |-> SubSeq(b, k + 1, Len(b))]
        ELSE [done |-> FALSE, out |-> <<>>, buf |-> b]

\* the child writes a chunk to the slave side
PtyArrive ==
    /\ ~ptyEof
    /\ \E chunk \in SeqsUpTo(PtyChars, MaxChunk) \ {<<>>} :
        /\ Len(ptyReceived) + Len(chunk) <= MaxBytes
        /\ ptyReceived' = ptyReceived \o chunk
        /\ ptyPending' = ptyPending \o chunk
    /\ UNCHANGED <<ptyEof, ptyBuffer, ptyReturned>>
    /\ UNCHANGED <<spawnVars, feedVars, streamVars, gitVars, launchVars, envVars, conVars>>
    /\ UNCHANGED <<bufVars, saveVars>>

\* the stream ends
PtyEnd ==
    /\ ~ptyEof
    /\ ptyEof' = TRUE
    /\ UNCHANGED <<ptyReceived, ptyPending, ptyBuffer, ptyReturned>>
    /\ UNCHANGED <<spawnVars, feedVars, streamVars, gitVars, launchVars, envVars, conVars>>
    /\ UNCHANGED <<bufVars, saveVars>>

\* one iteration of readline's `while True`: read(1) blocks until a
\* character is there or the stream has ended
PtyReadStep ==
    /\ ptyPending # <<>> \/ ptyEof
    /\ Len(SelectSeq(ptyReturned, LAMBDA l : l = <<>>)) < MaxEofReads
    /\ IF ptyPending # <<>>
       THEN LET r == PtyOnChunk(ptyBuffer, <<Head(ptyPending)>>)
            IN  /\ ptyPending' = Tail(ptyPending)
                /\ ptyBuffer' = r.buf
                /\ ptyReturned' = IF r.done THEN Append(ptyReturned, r.out)
                                  ELSE ptyReturned
       ELSE LET r == PtyOnEof(ptyBuffer)
            IN  /\ ptyBuffer' = r.buf
                /\ ptyReturned' = Append(ptyReturned, r.out)
                /\ UNCHANGED ptyPending
    /\ UNCHANGED <<ptyReceived, ptyEof>>
    /\ UNCHANGED <<spawnVars, feedVars, streamVars, gitVars, launchVars, envVars, conVars>>
    /\ UNCHANGED <<bufVars, saveVars>>

----------------------------------------------------------------------------
(* core/git_utils.py *)

\* Python's None, where a string may stand
None == <<"<None>">>

\* truthiness of an Optional[str]
Truthy(s) == s # None /\ s # <<>>

IsSpace(c) == c \in {" ", "\n", "\t", "\r"}

RECURSIVE LStrip(_)
LStrip(s) == IF s # <<>> /\ IsSpace(Head(s)) THEN LStrip(Tail(s)) ELSE s

RECURSIVE RStrip(_)
RStrip(s) ==
    IF s # <<>> /\ IsSpace(s[Len(s)]) THEN RStrip(SubSeq(s, 1, Len(s) - 1)) ELSE s

\* str.strip()
Strip(s) == RStrip(LStrip(s))

RECURSIVE SplitLines(_)
\* str.splitlines(): no empty last line after a final newline
SplitLines(s) ==
    IF s = <<>> THEN <<>>
    ELSE LET k == IndexOf(s, NL, 1)
         IN  IF k = 0 THEN <<s>>
             ELSE <<SubSeq(s, 1, k - 1)>> \o SplitLines(SubSeq(s, k + 1, Len(s)))

Digits == {"0", "1", "2", "3"}

DigitVal(c) == IF c = "0" THEN 0 ELSE IF c = "1" THEN 1 ELSE IF c = "2" THEN 2 ELSE 3

RECURSIVE DigitsVal(_, _)
DigitsVal(s, acc) ==
    IF s = <<>> THEN acc ELSE DigitsVal(Tail(s), 10 * acc + DigitVal(Head(s)))

IsDigits(s) == s # <<>> /\ \A i \in 1..Len(s) : s[i] \in Digits

\* int(s) of a stripped string: an optional sign and decimal digits, or
\* ValueError (ok = FALSE)
ParseInt(s) ==
    IF IsDigits(s) THEN [ok |-> TRUE, val |-> DigitsVal(s, 0)]
    ELSE IF s # <<>> /\ Head(s) \in {"-", "+"} /\ IsDigits(Tail(s))
         THEN [ok |-> TRUE,
               val |-> IF Head(s) = "-" THEN 0 - DigitsVal(Tail(s), 0)
                       ELSE DigitsVal(Tail(s), 0)]
         ELSE [ok |-> FALSE, val |-> 0]

\* the dataclass with its defaults
RepoStatus(ok, repo_path) ==
    [ok |-> ok, repo_path |-> repo_path, branch |-> None, upstream |-> None,
     behind |-> 0, ahead |-> 0, dirty |-> 0, fetch_error |-> None, error |-> None]

has_updates_IgnoresOk(s) == s.behind > 0
\* RepoStatus.has_updates
has_updates(s) == s.ok /\ s.behind > 0

\* what subprocess.run can do for one git command: the command exits, the
\* spawn raises OSError, or the timeout expires
Exited(rc, out, err) == [kind |-> "exit", rc |-> rc, out |-> out, err |-> err]
Raised(kind) == [kind |-> kind, rc |-> 0, out |-> <<>>, err |-> <<>>]

\* the argument vectors check_repo_status passes to run_git; a range
\* argument f"HEAD..{upstream}" is "HEAD.." followed by the upstream
FetchCmd == <<"fetch", "--all", "--prune">>
BranchCmd == <<"rev-parse", "--abbrev-ref", "HEAD">>
UpstreamCmd == <<"rev-parse", "--abbrev-ref", "--symbolic-full-name", "@{u}">>
BehindCmd(upstream) == <<"rev-list", "--count", "HEAD..">> \o upstream
AheadCmd(upstream) == <<"rev-list", "--count">> \o upstream \o <<"..HEAD">>
StatusCmd == <<"status", "--porcelain">>

\* what subprocess.run does for an argument vector in the environment env
GitAnswer(env, args) ==
    IF args = FetchCmd THEN env.fetch
    ELSE IF args = BranchCmd THEN env.branch
    ELSE IF args = UpstreamCmd THEN env.upstream
    ELSE IF args = StatusCmd THEN env.dirty
    ELSE IF args[3] = "HEAD.." THEN env.behind
    ELSE env.ahead

run_git_FailureAsSuccess(raw) ==
    IF raw.kind = "exit" THEN [rc |-> raw.rc, out |-> raw.out, err |-> raw.err]
    ELSE [rc |-> 0, out |-> <<>>, err |-> <<raw.kind>>]
\* run_git: (returncode, stdout, stderr), exceptions folded into (1, "", str(exc))
run_git(raw) ==
    IF raw.kind = "exit" THEN [rc |-> raw.rc, out |-> raw.out, err |-> raw.err]
    ELSE [rc |-> 1, out |-> <<>>, err |-> <<raw.kind>>]

get_branch(env) ==
    LET r == run_git(GitAnswer(env, BranchCmd))
    IN  IF r.rc = 0 THEN Strip(r.out) ELSE None

get_upstream_PrefersOrigin(env, branch) ==
    LET r == run_git(GitAnswer(env, UpstreamCmd))
    IN  IF Truthy(branch) THEN <<"origin/">> \o branch
        ELSE IF r.rc = 0 THEN Strip(r.out)
        ELSE None
get_upstream(env, branch) ==
    LET r == run_git(GitAnswer(env, UpstreamCmd))
    IN  IF r.rc = 0 THEN Strip(r.out)
        ELSE IF Truthy(branch) THEN <<"origin/">> \o branch
        ELSE None

get_dirty_count_CountsBlankLines(env) ==
    LET r == run_git(GitAnswer(env, StatusCmd))
    IN  IF r.rc # 0 THEN 0 ELSE Len(SplitLines(r.out))
get_dirty_count(env) ==
    LET r == run_git(GitAnswer(env, StatusCmd))
    IN  IF r.rc # 0 THEN 0
        ELSE Len(SelectSeq(SplitLines(r.out), LAMBDA ln : Strip(ln) # <<>>))

RangeCountIgnoresExit(raw) ==
    LET r == run_git(raw)
        t == Strip(r.out)
        p == ParseInt(IF t = <<>> THEN <<"0">> ELSE t)
    IN  IF p.ok THEN p.val ELSE 0
\* one rev-list --count query and the parse of its output
RangeCount(raw) ==
    LET r == run_git(raw)
        t == Strip(r.out)
        p == ParseInt(IF t = <<>> THEN <<"0">> ELSE t)
    IN  IF r.rc = 0 /\ p.ok THEN p.val ELSE 0

\* fetch_error after the fetch
FetchError(env) ==
    LET r == run_git(GitAnswer(env, FetchCmd))
    IN  IF r.rc # 0
        THEN Strip(IF r.err # <<>> THEN r.err ELSE <<"fetch failed">>)
        ELSE None

RangeCountsSwapped(env, upstream) ==
    IF Truthy(upstream)
    THEN [behind |-> RangeCount(GitAnswer(env, AheadCmd(upstream))),
          ahead |-> RangeCount(GitAnswer(env, BehindCmd(upstream))),
          calls |-> <<AheadCmd(upstream), BehindCmd(upstream)>>]
    ELSE [behind |-> 0, ahead |-> 0, calls |-> <<>>]
\* `if upstream:` and the two rev-list --count queries under it
RangeCounts(env, upstream) ==
    IF Truthy(upstream)
    THEN [behind |-> RangeCount(GitAnswer(env, BehindCmd(upstream))),
          ahead |-> RangeCount(GitAnswer(env, AheadCmd(upstream))),
          calls |-> <<BehindCmd(upstream), AheadCmd(upstream)>>]
    ELSE [behind |-> 0, ahead |-> 0, calls |-> <<>>]

\* the queries after the fetch: branch, upstream, the two counts, dirty
QueryRest(env) ==
    LET branch == get_branch(env)
        upstream == get_upstream(env, branch)
        counts == RangeCounts(env, upstream)
    IN  [branch |-> branch,
         upstream |-> upstream,
         behind |-> counts.behind,
         ahead |-> counts.ahead,
         dirty |-> get_dirty_count(env),
         calls |-> <<BranchCmd, UpstreamCmd>> \o counts.calls \o <<StatusCmd>>]

StatusAfterFetchSuppressed(env, fetch_error) ==
    IF fetch_error # None
    THEN [status |-> [RepoStatus(TRUE, "repo") EXCEPT !.fetch_error = fetch_error],
          calls |-> <<FetchCmd>>]
    ELSE [status |-> [RepoStatus(TRUE, "repo") EXCEPT
                        !.branch = QueryRest(env).branch,
                        !.upstream = QueryRest(env).upstream,
                        !.behind = QueryRest(env).behind,
                        !.ahead = QueryRest(env).ahead,
                        !.dirty = QueryRest(env).dirty],
          calls |-> <<FetchCmd>> \o QueryRest(env).calls]
\* check_repo_status from the line after the fetch to the return
StatusAfterFetch(env, fetch_error) ==
    LET q == QueryRest(env)
    IN  [status |-> [ok |-> TRUE, repo_path |-> "repo", branch |-> q.branch,
                     upstream |-> q.upstream, behind |-> q.behind,
                     ahead |-> q.ahead, dirty |-> q.dirty,
                     fetch_error |-> fetch_error, error |-> None],
         calls |-> <<FetchCmd>> \o q.calls]

\* os.path.isdir(repo_path) and os.path.isdir(os.path.join(repo_path, ".git"))
\* for a path that is missing, a plain file, a directory, a repository
IsDir(path) == path \in {"dir", "repo"}
HasGitDir(path) == path = "repo"

ValidationErrorMetadataFirst(env) ==
    IF ~HasGitDir(env.path) THEN <<"Not a git repository">>
    ELSE IF ~IsDir(env.path) THEN <<"Repository path not found">>
    ELSE None
\* the two checks that open check_repo_status, in their order
ValidationError(env) ==
    IF ~IsDir(env.path) THEN <<"Repository path not found">>
    ELSE IF ~HasGitDir(env.path) THEN <<"Not a git repository">>
    ELSE None

InvalidButOk(msg) ==
    [status |-> [RepoStatus(TRUE, "repo") EXCEPT !.error = msg],
     calls |-> <<>>]
InvalidAfterFetch(msg) ==
    [status |-> [RepoStatus(FALSE, "repo") EXCEPT !.error = msg],
     calls |-> <<FetchCmd>>]
\* the early returns: RepoStatus(ok=False, repo_path=..., error=msg)
Invalid(msg) ==
    [status |-> [RepoStatus(FALSE, "repo") EXCEPT !.error = msg],
     calls |-> <<>>]

\* check_repo_status: the status and the git commands it ran
check_repo_status(env) ==
    IF ValidationError(env) # None
    THEN Invalid(ValidationError(env))
    ELSE StatusAfterFetch(env, FetchError(env))

\* answers enumerated for each query
FetchAnswers ==
    {Exited(0, <<>>, <<>>), Exited(1, <<>>, <<"fatal: no remote", NL>>),
     Exited(1, <<>>, <<>>), Exited(1, <<>>, <<" ", NL>>), Raised("timeout")}
\* `git rev-parse --abbrev-ref HEAD` prints HEAD and exits 0 when HEAD is
\* detached
DetachedAnswer == Exited(0, <<"HEAD", NL>>, <<>>)
BranchAnswers ==
    {Exited(0, <<"main", NL>>, <<>>), DetachedAnswer, Exited(0, <<NL>>, <<>>),
     Exited(128, <<>>, <<"fatal", NL>>), Raised("oserror")}
UpstreamAnswers ==
    {Exited(0, <<"origin/main", NL>>, <<>>), Exited(0, <<NL>>, <<>>),
     Exited(128, <<>>, <<"fatal", NL>>)}
CountAnswers ==
    {Exited(0, <<"2", NL>>, <<>>), Exited(0, <<"0", NL>>, <<>>),
     Exited(0, <<>>, <<>>), Exited(0, <<"x", NL>>, <<>>),
     Exited(0, <<"-", "2", NL>>, <<>>), Exited(128, <<"3", NL>>, <<"fatal", NL>>)}
DirtyAnswers ==
    {Exited(0, <<>>, <<>>), Exited(0, <<" ", "M", " ", "a", NL>>, <<>>),
     Exited(0, <<"M", NL, " ", NL, "?", NL>>, <<>>),
     Exited(128, <<"M", NL>>, <<"fatal", NL>>)}

NoEnv ==
    [path |-> "missing", fetch |-> Exited(0, <<>>, <<>>),
     branch |-> Exited(0, <<>>, <<>>), upstream |-> Exited(0, <<>>, <<>>),
     behind |-> Exited(0, <<>>, <<>>), ahead |-> Exited(0, <<>>, <<>>),
     dirty |-> Exited(0, <<>>, <<>>)]

GitEnvs ==
    {[NoEnv EXCEPT !.path = p] : p \in {"missing", "file", "dir"}} \cup
    [path : {"repo"}, fetch : FetchAnswers, branch : BranchAnswers,
     upstream : UpstreamAnswers, behind : CountAnswers, ahead : CountAnswers,
     dirty : DirtyAnswers]

\* a status check; the subsystem keeps no earlier status
CheckRepo ==
    /\ gitHow = "none"
    /\ \E env \in GitEnvs :
        LET r == check_repo_status(env)
        IN  /\ gitEnv' = env
            /\ status' = r.status
            /\ gitCalls' = r.calls
            /\ hasUpd' = has_updates(r.status)
    /\ gitHow' = "check"
    /\ UNCHANGED <<spawnVars, feedVars, streamVars, ptyVars, launchVars, envVars, conVars>>
    /\ UNCHANGED <<bufVars, saveVars>>

\* a RepoStatus built directly from field values
MakeStatus ==
    /\ gitHow = "none"
    /\ \E ok \in BOOLEAN, behind \in {-1, 0, 2}, ahead \in {0, 1},
          err \in {None, <<"Not a git repository">>} :
        LET s == [RepoStatus(ok, "repo") EXCEPT
                    !.behind = behind, !.ahead = ahead, !.error = err]
        IN  /\ status' = s
            /\ hasUpd' = has_updates(s)
    /\ gitHow' = "ctor"
    /\ gitCalls' = <<>>
    /\ UNCHANGED gitEnv
    /\ UNCHANGED <<spawnVars, feedVars, streamVars, ptyVars, launchVars, envVars, conVars>>
    /\ UNCHANGED <<bufVars, saveVars>>

\* the status is dropped before the next one is made
DropStatus ==
    /\ gitHow # "none"
    /\ gitHow' = "none"
    /\ gitEnv' = NoEnv
    /\ gitCalls' = <<>>
    /\ status' = RepoStatus(FALSE, "repo")
    /\ hasUpd' = FALSE
    /\ UNCHANGED <<spawnVars, feedVars, streamVars, ptyVars, launchVars, envVars, conVars>>
    /\ UNCHANGED <<bufVars, saveVars>>

----------------------------------------------------------------------------
(* launch_install_external *)

\* the names of `terminals`, in order
Terminals == <<"kitty", "alacritty", "gnome-terminal", "xterm", "konsole", "foot">>

\* the child the fallback after the loop runs: cmd, with cwd=repo_path
DirectChild == "./setup install"

\* the call up to the loop over terminals
LaunchCall ==
    /\ lnPc = "idle"
    /\ lnPc' = "loop"
    /\ lnIdx' = 1
    /\ UNCHANGED <<lnTried, lnChildren, lnRaised>>
    /\ UNCHANGED <<spawnVars, feedVars, streamVars, ptyVars, gitVars, envVars, conVars>>
    /\ UNCHANGED <<bufVars, saveVars>>

AfterProbeKeepsLooping(avail, ok) == "continue"
\* how an iteration ends: `return` after a Popen that returned; the next
\* iteration when the terminal is not found or Popen raised (`continue`)
AfterProbe(avail, ok) == IF avail /\ ok THEN "return" ELSE "continue"

\* one iteration of `for name, base in terminals`: shutil_which(name), and
\* for an available terminal subprocess.Popen(full) inside try/except
LaunchProbe ==
    /\ lnPc = "loop"
    /\ lnIdx <= Len(Terminals)
    /\ \E avail \in BOOLEAN :
       \E ok \in (IF avail THEN BOOLEAN ELSE {FALSE}) :
        /\ lnTried' = Append(lnTried, [name |-> Terminals[lnIdx],
                                       avail |-> avail, ok |-> ok])
        \* a Popen that returned has started the terminal
        /\ lnChildren' = IF avail /\ ok
                         THEN Append(lnChildren, Terminals[lnIdx])
                         ELSE lnChildren
        /\ IF AfterProbe(avail, ok) = "return"
           THEN /\ lnPc' = "done"
                /\ UNCHANGED lnIdx
           ELSE /\ lnIdx' = lnIdx + 1
                /\ lnPc' = IF lnIdx = Len(Terminals) THEN "direct" ELSE "loop"
    /\ UNCHANGED lnRaised
    /\ UNCHANGED <<spawnVars, feedVars, streamVars, ptyVars, gitVars, envVars, conVars>>
    /\ UNCHANGED <<bufVars, saveVars>>

\* the statement after the loop: subprocess.Popen(cmd, cwd=repo_path), in no
\* try block
LaunchDirect ==
    /\ lnPc = "direct"
    /\ \E ok \in BOOLEAN :
        IF ok
        THEN /\ lnChildren' = Append(lnChildren, DirectChild)
             /\ UNCHANGED lnRaised
        ELSE \* Popen raises and nothing catches it
             /\ lnRaised' = TRUE
             /\ UNCHANGED lnChildren
    /\ lnPc' = "done"
    /\ UNCHANGED <<lnIdx, lnTried>>
    /\ UNCHANGED <<spawnVars, feedVars, streamVars, ptyVars, gitVars, envVars, conVars>>
    /\ UNCHANGED <<bufVars, saveVars>>

----------------------------------------------------------------------------
(* build_color_env *)

\* A dict is a function from its keys. Names and values a base environment
\* and os.environ are drawn from.
EnvKeys == {"TERM", "NO_COLOR", "FORCE_COLOR", "LANG"}
EnvVals == {"", "0", "vt100"}
Mappings == UNION {[D -> EnvVals] : D \in SUBSET EnvKeys}

\* the base argument: not given (None), or a mapping
NoBase == [given |-> FALSE, map |-> <<>>]
Given(m) == [given |-> TRUE, map |-> m]

\* os.environ of the calling process
OsEnvirons == {"TERM" :> "linux" @@ "LANG" :> "C",
               "LANG" :> "C" @@ "NO_COLOR" :> "1"}

\* dict.get(k, default)
DictGet(d, k, default) == IF k \in DOMAIN d THEN d[k] ELSE default
\* dict.update(u)
DictUpdate(d, u) ==
    [k \in DOMAIN d \cup DOMAIN u |-> IF k \in DOMAIN u THEN u[k] ELSE d[k]]
\* dict.pop(k, None)
DictPop(d, k) == [x \in DOMAIN d \ {k} |-> d[x]]
\* `a or b` on strings
StrOr(a, b) == IF a # "" THEN a ELSE b

\* `base or os.environ`: None and an empty mapping are both falsy
BaseOrEnviron(base, environ) ==
    IF base.given /\ DOMAIN base.map # {} THEN base.map ELSE environ

\* the dictionary given to env.update
ColorVars(env) ==
    "FORCE_COLOR" :> "1" @@ "CLICOLOR" :> "1" @@ "CLICOLOR_FORCE" :> "1" @@
    "TERM" :> StrOr(DictGet(env, "TERM", "xterm-256color"), "xterm-256color")

build_color_env(base, force_color, environ) ==
    LET env == BaseOrEnviron(base, environ)
    IN  IF force_color
        THEN DictPop(DictUpdate(env, ColorVars(env)), "NO_COLOR")
        ELSE env

\* a call of build_color_env
BuildEnv ==
    /\ envPc = "idle"
    /\ \E base \in {NoBase} \cup {Given(m) : m \in Mappings},
          force \in BOOLEAN, environ \in OsEnvirons :
        /\ envArgs' = [base |-> base, force_color |-> force]
        /\ envOs' = environ
        /\ envOut' = build_color_env(base, force, environ)
    /\ envPc' = "built"
    /\ UNCHANGED envAgain
    /\ UNCHANGED <<spawnVars, feedVars, streamVars, ptyVars, gitVars, launchVars, conVars>>
    /\ UNCHANGED <<bufVars, saveVars>>

\* the result is given back as the base of a second call
BuildAgain ==
    /\ envPc = "built"
    /\ envAgain' = build_color_env(Given(envOut), envArgs.force_color, envOs)
    /\ envPc' = "rebuilt"
    /\ UNCHANGED <<envArgs, envOs, envOut>>
    /\ UNCHANGED <<spawnVars, feedVars, streamVars, ptyVars, gitVars, launchVars, conVars>>
    /\ UNCHANGED <<bufVars, saveVars>>

\* the dictionaries go out of use
DropEnv ==
    /\ envPc = "rebuilt"
    /\ envPc' = "idle"
    /\ envArgs' = [base |-> NoBase, force_color |-> TRUE]
    /\ envOs' = <<>>
    /\ envOut' = <<>>
    /\ envAgain' = <<>>
    /\ UNCHANGED <<spawnVars, feedVars, streamVars, ptyVars, gitVars, launchVars, conVars>>
    /\ UNCHANGED <<bufVars, saveVars>>

----------------------------------------------------------------------------
(* ConsolePanel.set_process and ConsolePanel.send_to_process *)

\* texts a caller sends
SendTexts == {"y\n"}

\* objects other than the process spawn_setup_install returned that a
\* caller can attach: with or without a _pty_master_fd, with or without stdin
OtherProcs ==
    {[cmd |-> "other", master |-> m, stdin |-> i, stdout |-> "none"] :
        m \in {0, 9}, i \in BOOLEAN}

SendTransportPrefersPipe(p) ==
    IF p = NoProc THEN "none"
    ELSE IF p.stdin THEN "pipe"
    ELSE IF p.master # 0 THEN "pty"
    ELSE "none"
\* the transport send_to_process writes to: none when `p and (master_fd is
\* not None or p.stdin)` is false, the master when there is one, else stdin
SendTransport(p) ==
    IF p = NoProc THEN "none"
    ELSE IF p.master # 0 THEN "pty"
    ELSE IF p.stdin THEN "pipe"
    ELSE "none"

\* what the write of send_to_process can do: os.write returns or raises
\* OSError; fileno() of the closed pipe of the returned process raises
SendOutcomes(p, isSpawned, closed) ==
    IF SendTransport(p) = "none" THEN {"none"}
    ELSE IF isSpawned /\ SendTransport(p) = "pipe" /\ closed THEN {"badfile"}
    ELSE WriteOutcomes

\* the lines send_to_process gives to self.append
SendLog(via, text, res) ==
    IF via = "none" THEN <<>>
    ELSE IF res = "ok" THEN <<LogLine("sent", text)>>
    ELSE <<LogLine("send error", res)>>

\* set_process(proc) with another object, or with None
SetProcess ==
    /\ \E p \in OtherProcs \cup {NoProc} :
        /\ p # conProc
        /\ conProc' = p
    /\ UNCHANGED <<conLog, conSends, wire>>
    /\ UNCHANGED <<spawnVars, feedVars, streamVars, ptyVars, gitVars, launchVars, envVars>>
    /\ UNCHANGED <<bufVars, saveVars>>

\* set_process(p) with the process spawn_setup_install returned
AttachSpawned ==
    /\ ret = "proc"
    /\ conProc # proc
    /\ conProc' = proc
    /\ UNCHANGED <<conLog, conSends, wire>>
    /\ UNCHANGED <<spawnVars, feedVars, streamVars, ptyVars, gitVars, launchVars, envVars>>
    /\ UNCHANGED <<bufVars, saveVars>>

\* a call of send_to_process(text)
SendToProcess ==
    /\ Len(conSends) < MaxSends
    /\ LET p == conProc
           isSpawned == ret = "proc" /\ p = proc
           via == SendTransport(p)
       IN \E text \in SendTexts, res \in SendOutcomes(p, isSpawned, stdinClosed) :
            /\ conSends' = Append(conSends, [proc |-> p, text |-> text,
                                             via |-> via, res |-> res])
            /\ wire' = IF isSpawned THEN OsWrite(wire, "caller", text, res) ELSE wire
            /\ conLog' = conLog \o SendLog(via, text, res)
    /\ UNCHANGED conProc
    /\ UNCHANGED <<spawnVars, feedVars, streamVars, ptyVars, gitVars, launchVars, envVars>>
    /\ UNCHANGED <<bufVars, saveVars>>

----------------------------------------------------------------------------
(* save_settings *)

\* a path with no file
Absent == <<"<absent>">>

\* the text json.dump produces for two different settings, in the chunks it
\* is written in
Contents == {<<"{", "a", "}">>, <<"{", "b", "}">>}

InPlacePath == "file"
\* the path opened for writing: tmp = SETTINGS_FILE + ".tmp"
TmpPath == "tmp"

\* `except Exception: pass`: whatever failed, the call returns
OnSaveError == "returned"

\* os.replace(src, dst): dst becomes the file src named, in one step
Replace(fs, src, dst) ==
    IF src = dst THEN fs ELSE [fs EXCEPT ![dst] = fs[src], ![src] = Absent]

\* the call up to os.makedirs(SETTINGS_DIR, exist_ok=True) and the
\* serializable dictionary
SaveCall ==
    /\ svPc \in {"idle", "done", "killed"}
    /\ \E new \in Contents, ok \in BOOLEAN :
        /\ svNew' = new
        /\ svPc' = IF ok THEN "open" ELSE "done"
        /\ svOutcome' = IF ok THEN "none" ELSE OnSaveError
    /\ svPrev' = svFs.file
    /\ svIdx' = 1
    /\ UNCHANGED svFs
    /\ UNCHANGED <<spawnVars, feedVars, streamVars, ptyVars, gitVars, launchVars>>
    /\ UNCHANGED <<envVars, conVars, bufVars>>

\* open(tmp, "w"): the file is created or truncated, or open raises
SaveOpen ==
    /\ svPc = "open"
    /\ \E ok \in BOOLEAN :
        IF ok
        THEN /\ svFs' = [svFs EXCEPT ![TmpPath] = <<>>]
             /\ svPc' = "write"
             /\ UNCHANGED svOutcome
        ELSE /\ svPc' = "done"
             /\ svOutcome' = OnSaveError
             /\ UNCHANGED svFs
    /\ UNCHANGED <<svPrev, svNew, svIdx>>
    /\ UNCHANGED <<spawnVars, feedVars, streamVars, ptyVars, gitVars, launchVars>>
    /\ UNCHANGED <<envVars, conVars, bufVars>>

\* json.dump writes its next chunk, or raises (a value that cannot be
\* serialized, a full disk); the with block closes the file either way
SaveWrite ==
    /\ svPc = "write"
    /\ \E ok \in BOOLEAN :
        IF ok
        THEN /\ svFs' = [svFs EXCEPT ![TmpPath] = Append(@, svNew[svIdx])]
             /\ svIdx' = svIdx + 1
             /\ svPc' = IF svIdx = Len(svNew) THEN "replace" ELSE "write"
             /\ UNCHANGED svOutcome
        ELSE /\ svPc' = "done"
             /\ svOutcome' = OnSaveError
             /\ UNCHANGED <<svFs, svIdx>>
    /\ UNCHANGED <<svPrev, svNew>>
    /\ UNCHANGED <<spawnVars, feedVars, streamVars, ptyVars, gitVars, launchVars>>
    /\ UNCHANGED <<envVars, conVars, bufVars>>

\* os.replace(tmp, SETTINGS_FILE), or its failure
SaveReplace ==
    /\ svPc = "replace"
    /\ \E ok \in BOOLEAN :
        IF ok
        THEN /\ svFs' = Replace(svFs, TmpPath, "file")
             /\ svOutcome' = "returned"
        ELSE /\ svOutcome' = OnSaveError
             /\ UNCHANGED svFs
    /\ svPc' = "done"
    /\ UNCHANGED <<svPrev, svNew, svIdx>>
    /\ UNCHANGED <<spawnVars, feedVars, streamVars, ptyVars, gitVars, launchVars>>
    /\ UNCHANGED <<envVars, conVars, bufVars>>

\* the process is interrupted (killed) in the middle of a save
SaveKill ==
    /\ svPc \in {"open", "write", "replace"}
    /\ svPc' = "killed"
    /\ UNCHANGED <<svFs, svPrev, svNew, svIdx, svOutcome>>
    /\ UNCHANGED <<spawnVars, feedVars, streamVars, ptyVars, gitVars, launchVars>>
    /\ UNCHANGED <<envVars, conVars, bufVars>>

----------------------------------------------------------------------------
(* ConsolePanel.append *)

\* values of the setting log_max_lines (0: unlimited)
Limits == {0, 1, 2}

\* texts appended: characters and newlines
AppendTexts == {<<"a">>, <<"a", NL>>, <<NL, "a">>, <<"a", NL, "a", NL>>}

\* buf.get_line_count(): one more than the number of newlines
LineCount(b) == 1 + Cardinality({i \in 1..Len(b) : b[i] = NL})

RECURSIVE DropLines(_, _)
\* buf.delete(buf.get_start_iter(), buf.get_iter_at_line(n)): the buffer
\* without its first n lines
DropLines(b, n) ==
    IF n <= 0 THEN b
    ELSE LET k == IndexOf(b, NL, 1)
         IN  IF k = 0 THEN <<>> ELSE DropLines(SubSeq(b, k + 1, Len(b)), n - 1)

\* the `Optional trimming` block
Trim(b, limit) ==
    IF limit # 0 /\ LineCount(b) > limit
    THEN DropLines(b, LineCount(b) - limit)
    ELSE b

\* do_append: an unrealized view gets a plain insert and an early return;
\* a realized one the insert (pre: what insert_ansi_formatted had inserted
\* when it raised and the plain insert followed) and then the trimming
do_append(b, text, pre, isRealized, limit) ==
    IF ~isRealized THEN b \o text
    ELSE Trim(b \o pre \o text, limit)

\* what do_append puts into the buffer
Insertion(text, pre, isRealized) == IF isRealized THEN pre \o text ELSE text

\* ConsolePanel(settings): an empty buffer, a view not yet realized
PanelNew ==
    /\ cpPc = "none"
    /\ \E limit \in Limits : logLimit' = limit
    /\ cpPc' = "live"
    /\ UNCHANGED <<realized, cpBuffer, idle, inserted>>
    /\ UNCHANGED <<spawnVars, feedVars, streamVars, ptyVars, gitVars, launchVars>>
    /\ UNCHANGED <<envVars, conVars, saveVars>>

\* the view is realized (its window is shown) or unrealized again
ViewRealize ==
    /\ cpPc = "live"
    /\ realized' = ~realized
    /\ UNCHANGED <<cpPc, logLimit, cpBuffer, idle, inserted>>
    /\ UNCHANGED <<spawnVars, feedVars, streamVars, ptyVars, gitVars, launchVars>>
    /\ UNCHANGED <<envVars, conVars, saveVars>>

\* append(text) on the main thread: do_append runs at once
AppendMain ==
    /\ cpPc = "live"
    /\ \E text \in AppendTexts, pre \in {<<>>, <<"a">>} :
        /\ Len(inserted) + Len(Insertion(text, pre, realized)) <= MaxBuf
        /\ cpBuffer' = do_append(cpBuffer, text, pre, realized, logLimit)
        /\ inserted' = inserted \o Insertion(text, pre, realized)
    /\ UNCHANGED <<cpPc, logLimit, realized, idle>>
    /\ UNCHANGED <<spawnVars, feedVars, streamVars, ptyVars, gitVars, launchVars>>
    /\ UNCHANGED <<envVars, conVars, saveVars>>

\* append(text) on another thread: GLib.idle_add(do_append)
AppendThread ==
    /\ cpPc = "live"
    /\ Len(idle) < MaxIdle
    /\ \E text \in AppendTexts : idle' = Append(idle, text)
    /\ UNCHANGED <<cpPc, logLimit, realized, cpBuffer, inserted>>
    /\ UNCHANGED <<spawnVars, feedVars, streamVars, ptyVars, gitVars, launchVars>>
    /\ UNCHANGED <<envVars, conVars, saveVars>>

\* the main loop runs the oldest queued do_append
IdleRun ==
    /\ cpPc = "live"
    /\ idle # <<>>
    /\ \E pre \in {<<>>, <<"a">>} :
        /\ Len(inserted) + Len(Insertion(Head(idle), pre, realized)) <= MaxBuf
        /\ cpBuffer' = do_append(cpBuffer, Head(idle), pre, realized, logLimit)
        /\ inserted' = inserted \o Insertion(Head(idle), pre, realized)
    /\ idle' = Tail(idle)
    /\ UNCHANGED <<cpPc, logLimit, realized>>
    /\ UNCHANGED <<spawnVars, feedVars, streamVars, ptyVars, gitVars, launchVars>>
    /\ UNCHANGED <<envVars, conVars, saveVars>>

----------------------------------------------------------------------------
(* Specifications *)

Init ==
    /\ spPc = "idle"
    /\ spArgs = [use_pty |-> TRUE, capture_stdout |-> TRUE,
                 given |-> FALSE, auto_input_seq |-> <<>>]
    /\ cmdIdx = 1
    /\ attempts = <<>>
    /\ log = <<>>
    /\ proc = NoProc
    /\ ret = "pending"
    /\ fds = {}
    /\ feeders = 0
    /\ fdKind = "none"
    /\ fdPc = "none"
    /\ fdIdx = 1
    /\ fdWrites = <<>>
    /\ stdinClosed = FALSE
    /\ stPc = "idle"
    /\ stSpawned = FALSE
    /\ stText = TRUE
    /\ stContent = <<>>
    /\ stStream = <<>>
    /\ stFailed = FALSE
    /\ stExit = 0
    /\ stDelivered = <<>>
    /\ stRet = 0
    /\ ptyReceived = <<>>
    /\ ptyPending = <<>>
    /\ ptyEof = FALSE
    /\ ptyBuffer = <<>>
    /\ ptyReturned = <<>>
    /\ gitHow = "none"
    /\ gitEnv = NoEnv
    /\ gitCalls = <<>>
    /\ status = RepoStatus(FALSE, "repo")
    /\ hasUpd = FALSE
    /\ lnPc = "idle"
    /\ lnIdx = 1
    /\ lnTried = <<>>
    /\ lnChildren = <<>>
    /\ lnRaised = FALSE
    /\ envPc = "idle"
    /\ envArgs = [base |-> NoBase, force_color |-> TRUE]
    /\ envOs = <<>>
    /\ envOut = <<>>
    /\ envAgain = <<>>
    /\ conProc = NoProc
    /\ conLog = <<>>
    /\ conSends = <<>>
    /\ wire = <<>>
    /\ cpPc = "none"
    /\ logLimit = 0
    /\ realized = FALSE
    /\ cpBuffer = <<>>
    /\ idle = <<>>
    /\ inserted = <<>>
    /\ svPc = "idle"
    /\ svFs = [file |-> Absent, tmp |-> Absent]
    /\ svPrev = Absent
    /\ svNew = <<>>
    /\ svIdx = 1
    /\ svOutcome = "none"

NextSpawn ==
    \/ SpawnCall
    \/ SpawnAttempt
    \/ FeedStart
    \/ FeedItem
    \/ FeedSentinel
    \/ CloseStdin

SpecSpawn == Init /\ [][NextSpawn]_vars

NextStream ==
    \/ StreamCall
    \/ StreamRead

SpecStream == Init /\ [][NextStream]_vars

NextPty ==
    \/ PtyArrive
    \/ PtyEnd
    \/ PtyReadStep

SpecPty == Init /\ [][NextPty]_vars

NextGit ==
    \/ CheckRepo
    \/ MakeStatus
    \/ DropStatus

SpecGit == Init /\ [][NextGit]_vars

NextLaunch ==
    \/ LaunchCall
    \/ LaunchProbe
    \/ LaunchDirect

SpecLaunch == Init /\ [][NextLaunch]_vars

NextEnv ==
    \/ BuildEnv
    \/ BuildAgain
    \/ DropEnv

SpecEnv == Init /\ [][NextEnv]_vars

NextPanel ==
    \/ PanelNew
    \/ ViewRealize
    \/ AppendMain
    \/ AppendThread
    \/ IdleRun

SpecPanel == Init /\ [][NextPanel]_vars

NextSave ==
    \/ SaveCall
    \/ SaveOpen
    \/ SaveWrite
    \/ SaveReplace
    \/ SaveKill

SpecSave == Init /\ [][NextSave]_vars

NextConsole ==
    \/ SetProcess
    \/ SendToProcess

SpecConsole == Init /\ [][NextConsole]_vars

NextSend ==
    \/ SpawnCall
    \/ SpawnAttempt
    \/ FeedStart
    \/ FeedItem
    \/ FeedSentinel
    \/ CloseStdin
    \/ AttachSpawned
    \/ SendToProcess

SpecSend == Init /\ [][NextSend]_vars

----------------------------------------------------------------------------
(* Claims about spawn_setup_install and its feeder (SpecSpawn) *)

AllFailed == \A i \in 1..Len(attempts) : attempts[i].out # "ok"

\* C1: the commands are tried in the order './setup', 'fish ./setup',
\* 'sh ./setup'; every attempt before the last one made failed with
\* ENOEXEC; a returned process is the one spawned by the last attempt,
\* which is the first that spawned; and when all three failed the call
\* ends with an error line as its last log line and no process handle.
C1_FallbackOrder ==
    /\ Len(attempts) <= 3
    /\ \A i \in 1..Len(attempts) :
        /\ attempts[i].cmd = <<"./setup", "fish ./setup", "sh ./setup">>[i]
        /\ i < Len(attempts) => attempts[i].out = "ENOEXEC"
    /\ ret = "proc" <=> (attempts # <<>> /\ Last(attempts).out = "ok")
    /\ ret = "proc" => proc.cmd = Last(attempts).cmd
    /\ (spPc = "done" /\ Len(attempts) = 3 /\ AllFailed) =>
        /\ ret = "none"
        /\ proc = NoProc
        /\ Last(log).tag = "error"

\* two ENOEXEC failures, then 'sh ./setup' spawns and is returned
C1_Witness ==
    /\ spPc = "done"
    /\ Len(attempts) = 3
    /\ ret = "proc"
    /\ proc.cmd = "sh ./setup"

\* C2: every class of spawn failure moves on to the next command, so a
\* call that returns no handle has tried the whole chain.
C2_EveryFailureFallsBack ==
    (spPc = "done" /\ ret = "none") => Len(attempts) = Len(BaseCmds)

ItemWrites == SelectSeq(fdWrites, LAMBDA w : w.kind = "item")
SentinelWrites == SelectSeq(fdWrites, LAMBDA w : w.kind = "sentinel")
ClosedMidSequence ==
    \E i \in 1..Len(log) : log[i].tag = "auto-input-closed"
AllWritesOk == \A i \in 1..Len(fdWrites) : fdWrites[i].res = "ok"

\* C3: the feeder writes the items in sequence order, none skipped or
\* repeated, then the sentinel; and once the transport was found closed in
\* the middle of the sequence it makes no attempt to send the sentinel.
C3_InOrderAndStopsWhenClosed ==
    /\ \A j \in 1..Len(ItemWrites) :
        /\ ItemWrites[j].text = spArgs.auto_input_seq[j]
        /\ j < Len(ItemWrites) => ItemWrites[j].res = "ok"
    /\ (fdPc = "done" /\ fdKind = "_feed" /\ AllWritesOk /\ ~ClosedMidSequence) =>
        [i \in 1..Len(fdWrites) |-> fdWrites[i].text]
            = spArgs.auto_input_seq \o <<"yesforall\n">>
    /\ ClosedMidSequence => SentinelWrites = <<>>

\* C4: after a write that failed the feeder performs no further write.
C4_NoWriteAfterFailure ==
    \A i \in 1..Len(fdWrites) :
        fdWrites[i].res = "oserr" =>
            \A j \in (i + 1)..Len(fdWrites) : fdWrites[j].res \notin {"ok", "oserr"}

\* C5: when the feeder has finished and the transport stayed available
\* (never closed, no write failed), the feeder's last write is the sentinel
\* 'yesforall\n', it made exactly one sentinel write, and that write follows
\* the items of the sequence, whether one was given or not.
C5_SentinelLastOnce ==
    (fdPc = "done" /\ ~stdinClosed /\ AllWritesOk) =>
        /\ fdWrites # <<>>
        /\ Last(fdWrites) = [kind |-> "sentinel", text |-> "yesforall\n", res |-> "ok"]
        /\ Len(SentinelWrites) = 1
        /\ Len(fdWrites) = Len(spArgs.auto_input_seq) + 1

\* a two-item sequence fed through to the sentinel
C5_Witness ==
    /\ fdPc = "done"
    /\ ~stdinClosed
    /\ AllWritesOk
    /\ Len(spArgs.auto_input_seq) = 2
    /\ Len(fdWrites) = 3

\* C16: a returned process carries exactly one input transport: a
\* pseudo-terminal master and no standard-input stream, or a standard-input
\* pipe and no master; which one follows the mode of the attempt that spawned.
C16_ExactlyOneTransport ==
    ret = "proc" =>
        /\ (proc.master # 0) # proc.stdin
        /\ Last(attempts).pty <=> proc.master # 0
        /\ proc.master # 0 => proc.master \in fds

\* one of each transport is returned somewhere; this one is the terminal
C16_Witness == ret = "proc" /\ proc.master # 0 /\ ~proc.stdin /\ Len(attempts) = 2

\* C17: while the loop runs no feeder has been started, and once the call
\* has ended the number of feeders started is 1 if it returned a process and
\* 0 if it returned none, however many commands were tried.
C17_OneFeederPerProcess ==
    /\ spPc # "done" => feeders = 0
    /\ spPc = "done" => feeders = (IF ret = "proc" THEN 1 ELSE 0)
    /\ feeders = 1 <=> fdPc # "none"

\* the second command spawned after the first failed: one feeder
C17_Witness ==
    /\ spPc = "done"
    /\ Len(attempts) = 2
    /\ attempts[1].out = "ENOEXEC"
    /\ ret = "proc"
    /\ feeders = 1

\* C29: once spawn_setup_install has returned, the only pseudo-terminal
\* descriptor still open is the master of the returned process; none is open
\* when no process is returned.
C29_NoDescriptorLeak ==
    spPc = "done" =>
        fds = (IF ret = "proc" /\ proc.master # 0 THEN {proc.master} ELSE {})

PtyFailed(att) == att.asked_pty /\ ~att.pty
PtyWarnings == SelectSeq(log, LAMBDA l : l.tag = "pty-warn")

\* C18: every attempt of a call with use_pty calls pty.openpty(), whatever
\* happened in the attempts before it; an attempt whose allocation failed
\* logs one warning and still runs its command, with pipe transport (a
\* process it spawns has a standard-input pipe and no master).
C18_PtyFailureDegradesOneAttempt ==
    /\ \A i \in 1..Len(attempts) :
        /\ attempts[i].asked_pty = spArgs.use_pty
        /\ attempts[i].out \in {"ok", "ENOEXEC", "ENOENT", "EACCES", "other"}
    /\ Len(PtyWarnings) = Len(SelectSeq(attempts, PtyFailed))
    /\ (ret = "proc" /\ PtyFailed(Last(attempts))) => (proc.stdin /\ proc.master = 0)

\* the allocation failed for './setup'; 'fish ./setup' got a terminal
C18_Witness ==
    /\ Len(attempts) = 2
    /\ PtyFailed(attempts[1])
    /\ attempts[2].pty
    /\ ret = "proc"
    /\ proc.master # 0

----------------------------------------------------------------------------
(* Claims about launch_install_external (SpecLaunch) *)

\* C15: no exception leaves launch_install_external.
C15_LaunchNeverRaises == ~lnRaised

Launched(t) == t.avail /\ t.ok

\* C27: a call launches at most one child. A terminal launched is the
\* first of kitty, alacritty, gnome-terminal, xterm, konsole, foot that was
\* found and whose launch succeeded: every one before it in that order was
\* probed and was missing or failed, and none after it was probed. The
\* direct background child is launched only after all six were probed and
\* none was launched.
C27_AtMostOneChildInOrder ==
    /\ Len(lnChildren) <= 1
    /\ Len(lnTried) <= Len(Terminals)
    /\ \A i \in 1..Len(lnTried) : lnTried[i].name = Terminals[i]
    /\ \A i \in 1..Len(lnTried) :
        Launched(lnTried[i]) =>
            /\ lnChildren = <<Terminals[i]>>
            /\ i = Len(lnTried)
            /\ \A j \in 1..(i - 1) : ~Launched(lnTried[j])
    /\ lnChildren # <<>> =>
        IF lnChildren[1] = DirectChild
        THEN /\ Len(lnTried) = Len(Terminals)
             /\ \A i \in 1..Len(lnTried) : ~Launched(lnTried[i])
        ELSE Launched(Last(lnTried)) /\ Last(lnTried).name = lnChildren[1]
    /\ (lnPc = "done" /\ ~lnRaised) => Len(lnChildren) = 1

\* kitty is installed but fails to start, alacritty and gnome-terminal are
\* missing: xterm is the terminal launched
C27_Witness ==
    /\ lnPc = "done"
    /\ lnChildren = <<"xterm">>
    /\ lnTried[1].avail /\ ~lnTried[1].ok
    /\ ~lnTried[2].avail

----------------------------------------------------------------------------
(* Claims about the feeder and send_to_process on one transport (SpecSend) *)

Texts(w) == [i \in 1..Len(w) |-> w[i].text]
FeederUnits == SelectSeq(wire, LAMBDA u : u.by = "feeder")
CallerUnits == SelectSeq(wire, LAMBDA u : u.by = "caller")

\* C28: whatever the interleaving of the feeder with send_to_process on the
\* transport of the returned process, every unit on the transport is one
\* whole written text (an item or the sentinel from the feeder, a sent text
\* from the caller), one unit per write that succeeded, and the feeder's
\* units are, in order, the first items of auto_input_seq, followed or not
\* by the sentinel. Caller units may stand anywhere among them.
C28_UnitsWholeFeederOrdered ==
    /\ \A i \in 1..Len(wire) :
        IF wire[i].by = "feeder"
        THEN wire[i].text \in Items \cup {Yesforall}
        ELSE wire[i].by = "caller" /\ wire[i].text \in SendTexts
    /\ Len(FeederUnits) = Len(SelectSeq(fdWrites, LAMBDA a : a.res = "ok"))
    /\ Len(CallerUnits) =
        Len(SelectSeq(conSends, LAMBDA c : c.res = "ok" /\ c.proc # NoProc))
    /\ wire # <<>> => ret = "proc"
    /\ \E k \in 0..Len(spArgs.auto_input_seq) :
        \/ Texts(FeederUnits) = SubSeq(spArgs.auto_input_seq, 1, k)
        \/ Texts(FeederUnits) = SubSeq(spArgs.auto_input_seq, 1, k) \o <<Yesforall>>

\* a caller write landed between the feeder's first and second item
C28_Witness ==
    /\ Len(wire) >= 3
    /\ wire[1] = [by |-> "feeder", text |-> "yes"]
    /\ wire[2] = [by |-> "caller", text |-> "y\n"]
    /\ wire[3] = [by |-> "feeder", text |-> Yesforall]
    /\ spArgs.auto_input_seq = <<"yes", Yesforall>>
    /\ fdPc = "sentinel"

----------------------------------------------------------------------------
(* Claims about ConsolePanel.send_to_process (SpecConsole) *)

Transported == SelectSeq(conSends, LAMBDA c : c.via # "none")

\* C30: a call of send_to_process writes to the pseudo-terminal master when
\* the attached process has one, to its standard-input pipe when it has a
\* pipe and no master, and with no process attached or a process with
\* neither it writes nothing and logs nothing; the log holds one line per
\* call that had a transport, '[sent] <text>' when the write succeeded and
\* '[send error] ...' when it failed.
C30_SendToProcess ==
    /\ \A i \in 1..Len(conSends) :
        LET c == conSends[i]
        IN  /\ (c.proc # NoProc /\ c.proc.master # 0) => c.via = "pty"
            /\ (c.proc # NoProc /\ c.proc.master = 0 /\ c.proc.stdin) => c.via = "pipe"
            /\ (c.proc = NoProc \/ (c.proc.master = 0 /\ ~c.proc.stdin)) =>
                    (c.via = "none" /\ c.res = "none")
            /\ c.via # "none" => c.res # "none"
    /\ Len(conLog) = Len(Transported)
    /\ \A k \in 1..Len(Transported) :
        IF Transported[k].res = "ok"
        THEN conLog[k] = LogLine("sent", Transported[k].text)
        ELSE conLog[k].tag = "send error"

\* nothing attached: nothing happens; then a process with both a master and
\* a pipe: the master is written, and the write fails
C30_Witness ==
    /\ Len(conSends) = 2
    /\ conSends[1].proc = NoProc
    /\ conSends[2].proc.master # 0 /\ conSends[2].proc.stdin
    /\ conSends[2].via = "pty"
    /\ conSends[2].res = "oserr"
    /\ Len(conLog) = 1

----------------------------------------------------------------------------
(* Claims about ConsolePanel.append (SpecPanel) *)

\* C31: with a positive log_max_lines the buffer never holds more lines
\* than the limit, whether the view is realized or not and whichever thread
\* appended; with the limit 0 the buffer holds everything inserted.
C31_BufferWithinLimit ==
    cpPc = "live" =>
        /\ logLimit > 0 => LineCount(cpBuffer) <= logLimit
        /\ logLimit = 0 => cpBuffer = inserted

----------------------------------------------------------------------------
(* Claims about save_settings (SpecSave) *)

\* C32: at every point of a save, a failed or an interrupted one included,
\* the settings file is what it was when the save began or the whole of the
\* new text, each of them absent or a complete text and never a part of
\* one; and no save ends by raising.
C32_SaveAtomic ==
    /\ svFs.file \in {svPrev, svNew}
    /\ svFs.file \in Contents \cup {Absent}
    /\ svPrev \in Contents \cup {Absent}
    /\ svOutcome # "raised"
    /\ (svPc = "done" /\ svFs.file # svPrev) => svFs.tmp = Absent

\* a second save failed after two of its three chunks: the temp file holds
\* the part, the settings file still the text of the first save
C32_Witness ==
    /\ svPc = "done"
    /\ svPrev \in Contents
    /\ svNew # svPrev
    /\ svFs.file = svPrev
    /\ svFs.tmp = SubSeq(svNew, 1, 2)
    /\ svOutcome = "returned"

----------------------------------------------------------------------------
(* Claims about build_color_env (SpecEnv) *)

ColorKeys == {"FORCE_COLOR", "CLICOLOR", "CLICOLOR_FORCE"}

\* the base of a call: the mapping passed, os.environ when none was passed
BaseOf(args, environ) == IF args.base.given THEN args.base.map ELSE environ

\* C21: when color is requested the result has FORCE_COLOR, CLICOLOR and
\* CLICOLOR_FORCE '1', TERM equal to the base's TERM when that is non-empty
\* and to 'xterm-256color' otherwise, no NO_COLOR, every other variable of
\* the base unchanged and nothing else; and building from the result gives
\* the result again.
C21_ColorEnvironment ==
    (envPc \in {"built", "rebuilt"} /\ envArgs.force_color) =>
        LET base == BaseOf(envArgs, envOs)
        IN  /\ \A k \in ColorKeys : k \in DOMAIN envOut /\ envOut[k] = "1"
            /\ "TERM" \in DOMAIN envOut
            /\ envOut["TERM"] # ""
            /\ envOut["TERM"] = (IF "TERM" \in DOMAIN base /\ base["TERM"] # ""
                                 THEN base["TERM"] ELSE "xterm-256color")
            /\ "NO_COLOR" \notin DOMAIN envOut
            /\ \A k \in DOMAIN base \ (ColorKeys \cup {"TERM", "NO_COLOR"}) :
                k \in DOMAIN envOut /\ envOut[k] = base[k]
            /\ envPc = "rebuilt" => envAgain = envOut

----------------------------------------------------------------------------
(* Claims about stream_process_lines (SpecStream) *)

\* the lines read from the process, without the lines the function adds
ProcessLines ==
    SubSeq(stDelivered, 1, Len(stDelivered) - (IF stFailed THEN 2 ELSE 1))

IsPrefix(s, t) == Len(s) <= Len(t) /\ s = SubSeq(t, 1, Len(s))

\* C6: for a command that spawned, the lines delivered are the process's
\* output cut at its newlines, in the order written (all of it unless a read
\* failed, a leading part of it otherwise); exactly one '[exit <code>]' line
\* is delivered, it is the last line, and its code is the process's exit code
\* and the value returned.
C6_OrderedLinesThenExit ==
    /\ (stPc = "reading") =>
        /\ Flatten(stDelivered) \o stStream = stContent
        /\ \A i \in 1..Len(stDelivered) : stDelivered[i][1] # "[exit "
    /\ (stPc = "done" /\ stSpawned) =>
        /\ stDelivered # <<>>
        /\ Last(stDelivered) = <<"[exit ", CodeStr(stExit), "]", "\n">>
        /\ stRet = stExit
        /\ Cardinality({i \in 1..Len(stDelivered) : stDelivered[i][1] = "[exit "}) = 1
        /\ IsPrefix(Flatten(ProcessLines), stContent)
        /\ ~stFailed => Flatten(ProcessLines) = stContent
        /\ \A i \in 1..Len(ProcessLines) :
            /\ ProcessLines[i] # <<>>
            /\ IndexOf(ProcessLines[i], NL, 1) \in {0, Len(ProcessLines[i])}
            /\ i < Len(ProcessLines) => Last(ProcessLines[i]) = NL

\* a read fails after one line was delivered
C6_Witness ==
    /\ stPc = "done"
    /\ stSpawned
    /\ stFailed
    /\ Len(stDelivered) = 3
    /\ stStream # <<>>
    /\ stExit = 1

\* C7: when the command cannot be spawned, on_line receives exactly one line,
\* the spawn diagnostic, and the function returns 1.
C7_SpawnFailureOneLine ==
    (stPc = "done" /\ ~stSpawned) =>
        /\ stDelivered = << <<"[error] failed to spawn: ", "ex", "\n">> >>
        /\ stRet = 1

C7_Witness == stPc = "done" /\ ~stSpawned /\ Len(stDelivered) = 1

----------------------------------------------------------------------------
(* Claims about PTYStdout.readline (SpecPty) *)

\* C8: whatever the chunks, nothing is lost or reordered (what was returned,
\* then the buffer, then the unread characters, is what was received); a
\* returned line that ends in a newline holds no other newline; a returned
\* value without a newline is the remainder, returned only once the stream
\* has ended and is drained, and only empty results follow it; an empty
\* result is returned only when the stream has ended with the buffer empty,
\* and by then the returned values add up to everything received.
C8_CompleteLines ==
    /\ Flatten(ptyReturned) \o ptyBuffer \o ptyPending = ptyReceived
    /\ \A i \in 1..Len(ptyReturned) :
        LET l == ptyReturned[i]
            atEnd == /\ ptyEof /\ ptyPending = <<>> /\ ptyBuffer = <<>>
                     /\ \A j \in (i + 1)..Len(ptyReturned) : ptyReturned[j] = <<>>
        IN  /\ (l # <<>> /\ Last(l) = NL) => IndexOf(l, NL, 1) = Len(l)
            /\ (l # <<>> /\ Last(l) # NL) => (IndexOf(l, NL, 1) = 0 /\ atEnd)
            /\ l = <<>> => (atEnd /\ Flatten(ptyReturned) = ptyReceived)

\* 'a', 'b\n', 'a' received: 'ab\n', then 'a' at the end, then ''
C8_Witness ==
    /\ ptyReceived = <<"a", "b", NL, "a">>
    /\ ptyReturned = << <<"a", "b", NL>>, <<"a">>, <<>> >>

----------------------------------------------------------------------------
(* Claims about RepoStatus and check_repo_status (SpecGit) *)

FetchFailed(env) == run_git(env.fetch).rc # 0

\* the fields a fetch failure must leave alone
Snapshot(s) == <<s.ok, s.branch, s.upstream, s.behind, s.ahead, s.dirty, s.error>>

\* C9: a status checked on a valid repository whose fetch failed has ok
\* true and a fetch_error, and its branch, upstream, behind, ahead and dirty
\* are those check_repo_status gives with the same answers to the later
\* queries and a fetch that succeeds.
C9_FetchFailureKeepsSnapshot ==
    (gitHow = "check" /\ gitEnv.path = "repo" /\ FetchFailed(gitEnv)) =>
        /\ status.ok
        /\ status.fetch_error # None
        /\ \A f \in {a \in FetchAnswers : run_git(a).rc = 0} :
            LET good == check_repo_status([gitEnv EXCEPT !.fetch = f]).status
            IN  /\ Snapshot(good) = Snapshot(status)
                /\ good.fetch_error = None

\* the fetch timed out; branch, counts and dirty are all reported
C9_Witness ==
    /\ gitHow = "check"
    /\ gitEnv.path = "repo"
    /\ gitEnv.fetch = Raised("timeout")
    /\ status.branch = <<"main">>
    /\ status.behind = 2
    /\ status.dirty = 2

\* C10: has_updates is true exactly when ok is true and behind > 0, for a
\* status however it was made; a status checked on a missing path or on a
\* directory that is no repository has has_updates false.
C10_HasUpdatesIff ==
    /\ hasUpd <=> (status.ok = TRUE /\ status.behind > 0)
    /\ (gitHow = "check" /\ gitEnv.path # "repo") => ~hasUpd

\* a checked repository that is behind its upstream
C10_Witness == gitHow = "check" /\ hasUpd /\ status.behind = 2

CheckedRepo == gitHow = "check" /\ gitEnv.path = "repo"

\* the number a rev-list --count answer reports: its decimal output when the
\* command exits 0 with one, 0 otherwise
Reported(raw) ==
    IF raw = Exited(0, <<"2", NL>>, <<>>) THEN 2
    ELSE IF raw = Exited(0, <<"-", "2", NL>>, <<>>) THEN 0 - 2
    ELSE 0

RevListCalls == SelectSeq(gitCalls, LAMBDA c : c[1] = "rev-list")

\* C11: in a status checked on a valid repository, when an upstream is
\* resolved the two range-count queries 'HEAD..<upstream>' and
\* '<upstream>..HEAD' are run, in that order, behind is what the first
\* reports and ahead what the second reports; when none is resolved neither
\* query is run, behind and ahead are 0 and has_updates is false.
C11_CountsFromRangeQueries ==
    CheckedRepo =>
        IF status.upstream # None /\ status.upstream # <<>>
        THEN /\ RevListCalls =
                    << <<"rev-list", "--count", "HEAD..">> \o status.upstream,
                       <<"rev-list", "--count">> \o status.upstream \o <<"..HEAD">> >>
             /\ status.behind = Reported(gitEnv.behind)
             /\ status.ahead = Reported(gitEnv.ahead)
        ELSE /\ RevListCalls = <<>>
             /\ status.behind = 0
             /\ status.ahead = 0
             /\ ~hasUpd

\* upstream taken from the origin/<branch> convention, 2 behind and 0 ahead
C11_Witness ==
    /\ CheckedRepo
    /\ status.upstream = <<"origin/", "main">>
    /\ gitEnv.behind = Exited(0, <<"2", NL>>, <<>>)
    /\ gitEnv.ahead = Exited(0, <<"0", NL>>, <<>>)
    /\ status.behind = 2
    /\ status.ahead = 0
    /\ hasUpd

\* C12: a status checked on a path that is not a directory (missing, or a
\* plain file) has ok false, error 'Repository path not found', behind,
\* ahead and dirty 0, no branch, upstream or fetch_error, and no git command
\* was run for it.
C12_MissingPath ==
    (gitHow = "check" /\ gitEnv.path \in {"missing", "file"}) =>
        /\ status = [ok |-> FALSE, repo_path |-> "repo", branch |-> None,
                     upstream |-> None, behind |-> 0, ahead |-> 0, dirty |-> 0,
                     fetch_error |-> None,
                     error |-> <<"Repository path not found">>]
        /\ gitCalls = <<>>

C12_Witness == gitHow = "check" /\ gitEnv.path = "file" /\ ~status.ok

\* C13: a status checked on a directory without '.git' has ok false, error
\* 'Not a git repository', and no git command was run for it; and a status
\* with that error is never the result of checking a path that is not a
\* directory.
C13_NotARepository ==
    /\ (gitHow = "check" /\ gitEnv.path = "dir") =>
        /\ ~status.ok
        /\ status.error = <<"Not a git repository">>
        /\ gitCalls = <<>>
    /\ (gitHow = "check" /\ status.error = <<"Not a git repository">>) =>
        gitEnv.path = "dir"

C13_Witness ==
    gitHow = "check" /\ gitEnv.path = "dir" /\ status.error = <<"Not a git repository">>

\* C14: for every git command a check ran, run_git gives a three-field
\* result: the process's own code, stdout and stderr when it ran, and
\* (1, "", <message>) when the spawn raised or the timeout expired; the check
\* itself completes with such failures (a fetch that timed out is reported in
\* fetch_error, a branch query that could not be spawned gives no branch).
C14_RunGitNeverRaises ==
    CheckedRepo =>
        /\ \A i \in 1..Len(gitCalls) :
            LET raw == GitAnswer(gitEnv, gitCalls[i])
                r == run_git(raw)
            IN  /\ DOMAIN r = {"rc", "out", "err"}
                /\ raw.kind = "exit" => r = [rc |-> raw.rc, out |-> raw.out, err |-> raw.err]
                /\ raw.kind # "exit" => r = [rc |-> 1, out |-> <<>>, err |-> <<raw.kind>>]
        /\ gitEnv.fetch.kind # "exit" => status.fetch_error = <<gitEnv.fetch.kind>>
        /\ gitEnv.branch.kind # "exit" => status.branch = None
        /\ status.ok

\* the fetch timed out and git could not be spawned for the branch query
C14_Witness ==
    /\ CheckedRepo
    /\ gitEnv.fetch = Raised("timeout")
    /\ gitEnv.branch = Raised("oserror")
    /\ Len(gitCalls) >= 3

TrackingResolved == gitEnv.upstream.kind = "exit" /\ gitEnv.upstream.rc = 0

\* C19: in a status checked on a valid repository, upstream is the tracking
\* reference when the tracking query succeeds; otherwise 'origin/<branch>'
\* when the status has a non-empty branch; otherwise absent.
C19_UpstreamResolution ==
    CheckedRepo =>
        IF TrackingResolved
        THEN gitEnv.upstream.out = status.upstream \o <<NL>>
        ELSE IF status.branch # None /\ status.branch # <<>>
        THEN status.upstream = <<"origin/">> \o status.branch
        ELSE status.upstream = None

\* no tracking reference, branch main: origin/main by convention
C19_Witness ==
    /\ CheckedRepo
    /\ ~TrackingResolved
    /\ status.branch = <<"main">>
    /\ status.upstream = <<"origin/", "main">>

BranchQueryFailed == gitEnv.branch.kind # "exit" \/ gitEnv.branch.rc # 0

\* C20: branch is absent whenever HEAD is detached or the branch query
\* fails, and is the name the query printed otherwise; the status is ok
\* either way.
C20_BranchAbsentWhenDetached ==
    CheckedRepo =>
        /\ status.ok
        /\ IF gitEnv.branch = DetachedAnswer \/ BranchQueryFailed
           THEN status.branch = None
           ELSE gitEnv.branch.out = status.branch \o <<NL>>

QueryFailed(raw) == raw.kind # "exit" \/ raw.rc # 0

\* C22: with an upstream resolved both range-count queries are run, and
\* each count depends on its own query only: it is 0 when that query fails
\* or prints nothing or something that is not a number, and otherwise the
\* number printed, whatever the other query did.
C22_CountsIndependent ==
    (CheckedRepo /\ Truthy(status.upstream)) =>
        /\ Len(RevListCalls) = 2
        /\ QueryFailed(gitEnv.behind) => status.behind = 0
        /\ QueryFailed(gitEnv.ahead) => status.ahead = 0
        /\ gitEnv.behind.out \in {<<>>, <<"x", NL>>} => status.behind = 0
        /\ gitEnv.ahead.out \in {<<>>, <<"x", NL>>} => status.ahead = 0
        /\ \A other \in CountAnswers :
            /\ RangeCounts([gitEnv EXCEPT !.ahead = other], status.upstream).behind
                    = status.behind
            /\ RangeCounts([gitEnv EXCEPT !.behind = other], status.upstream).ahead
                    = status.ahead

\* the behind query failed (with output), the ahead query reports 2
C22_Witness ==
    /\ CheckedRepo
    /\ Truthy(status.upstream)
    /\ gitEnv.behind = Exited(128, <<"3", NL>>, <<"fatal", NL>>)
    /\ gitEnv.ahead = Exited(0, <<"2", NL>>, <<>>)
    /\ status.behind = 0
    /\ status.ahead = 2

\* C23: in every status a check returns, behind, ahead and dirty are not
\* negative.
C23_CountsNotNegative ==
    gitHow = "check" => (status.behind >= 0 /\ status.ahead >= 0 /\ status.dirty >= 0)

\* C24: in every status a check returns, error is set exactly when ok is
\* false, and a status with error set has behind, ahead and dirty 0 and no
\* branch, upstream or fetch_error.
C24_ErrorIffNotOk ==
    gitHow = "check" =>
        /\ status.error # None <=> ~status.ok
        /\ status.error # None =>
            /\ status.behind = 0 /\ status.ahead = 0 /\ status.dirty = 0
            /\ status.branch = None
            /\ status.upstream = None
            /\ status.fetch_error = None

C24_Witness ==
    /\ gitHow = "check"
    /\ gitEnv.path = "missing"
    /\ status.error = <<"Repository path not found">>
    /\ ~status.ok

\* C25: in a status checked on a valid repository, fetch_error is present
\* and not empty when the fetch failed, whatever its stderr was, and absent
\* when the fetch succeeded.
C25_FetchErrorIffFailed ==
    CheckedRepo =>
        IF QueryFailed(gitEnv.fetch)
        THEN status.fetch_error # None /\ status.fetch_error # <<>>
        ELSE status.fetch_error = None

\* the number of lines of a status --porcelain answer that are not blank
NonBlankLines(raw) ==
    IF raw = Exited(0, <<" ", "M", " ", "a", NL>>, <<>>) THEN 1
    ELSE IF raw = Exited(0, <<"M", NL, " ", NL, "?", NL>>, <<>>) THEN 2
    ELSE 0

\* C26: dirty is the number of non-blank lines the working-tree status
\* query printed and 0 when that query failed; and apart from dirty the
\* status is what it would be had the query succeeded with no output.
C26_DirtyCount ==
    CheckedRepo =>
        /\ status.dirty = NonBlankLines(gitEnv.dirty)
        /\ QueryFailed(gitEnv.dirty) => status.dirty = 0
        /\ [status EXCEPT !.dirty = 0] =
            check_repo_status([gitEnv EXCEPT !.dirty = Exited(0, <<>>, <<>>)]).status
        /\ status.ok

\* three lines, one of them blank: two dirty files
C26_Witness ==
    /\ CheckedRepo
    /\ gitEnv.dirty = Exited(0, <<"M", NL, " ", NL, "?", NL>>, <<>>)
    /\ status.dirty = 2
    /\ status.behind = 2

====
